---- MODULE Spec2Model ----
(***************************************************************************)
(* Model of the Conan recipe of Boost.Scope (conan/conanfile.py).          *)
(*                                                                         *)
(* The recipe is a class with five hooks: validate, export_sources, build, *)
(* package and package_id.  The package manager calls them one at a time;  *)
(* an exception raised by a hook ends the invocation.  The state is the    *)
(* settings the recipe reads, the folders it copies between, the package   *)
(* identity record (self.info), the log (self.output) and the position of  *)
(* the invocation.                                                         *)
(*                                                                         *)
(* Paths are sequences of tokens ("include", "/", "boost", ...), so that   *)
(* the glob patterns "include*" and "include/*" differ as they do for      *)
(* fnmatch on characters.  A folder is a function from the paths of the    *)
(* files it holds to their contents.                                       *)
(***************************************************************************)
EXTENDS Integers, Sequences, FiniteSets, TLC

VARIABLES
    compiler,               \* str(self.settings.compiler)
    version,                \* self.settings.compiler.version, as <<major, minor>>
    cppstd,                 \* self.settings.compiler.cppstd, NoCppstd when unset
    build_type,             \* self.settings.build_type
    recipe_root,            \* the folder os.path.join(self.recipe_folder, "..")
    patch_targets,          \* the files conan/1.83_compat.patch has hunks for
    patch_fits,             \* whether its hunks match the upstream files
    export_sources_folder,  \* self.export_sources_folder
    source_folder,          \* self.source_folder
    package_folder,         \* self.package_folder
    info,                   \* self.info, the package identity record
    output,                 \* self.output, the warnings logged so far
    table_consulted,        \* whether validate() read the minimum-version table
    raised,                 \* the exception that ended the invocation, if any
    calls,                  \* how often each hook has been entered
    pc                      \* the hook the package manager calls next

vars == <<compiler, version, cppstd, build_type, recipe_root, patch_targets,
          patch_fits, export_sources_folder, source_folder, package_folder,
          info, output, table_consulted, raised, calls, pc>>

settings_vars == <<compiler, version, cppstd, build_type>>

\* ------------------------------------------------------------------ bounds

\* Compiler versions are <<major, minor>> with minor in 0..MaxMinor.
MaxMinor == 1

\* The configurable C++ standards are the first MaxStdIdx of CppStds.
MaxStdIdx == 2

\* ---------------------------------------------------------------- settings

\* An optional value: <<>> is Python's None, <<v>> is the value v.
None == <<>>

Some(v) == <<v>>

\* The table of _min_compiler_version_default_cxx11.
MinVersionTable ==
    [c \in {"apple-clang", "gcc", "clang", "Visual Studio", "msvc"} |->
        CASE c = "apple-clang"   -> 99
          [] c = "gcc"           -> 6
          [] c = "clang"         -> 6
          [] c = "Visual Studio" -> 14
          [] c = "msvc"          -> 190]

\* dict.get(key): the entry, or None when the key is absent.
dict_get(d, key) == IF key \in DOMAIN d THEN Some(d[key]) ELSE None

\* The lookup with a default version for compilers the table does not name.
min_compiler_version_with_default(name) ==
    IF name \in DOMAIN MinVersionTable THEN Some(MinVersionTable[name]) ELSE Some(6)

min_compiler_version_default_cxx11(name) == dict_get(MinVersionTable, name)

\* Compilers the settings can name: those of the table and two outside it.
Compilers == DOMAIN MinVersionTable \cup {"intel-cc", "sun-cc"}

\* Major versions around every entry of the table.
Majors == UNION {{MinVersionTable[c] - 1, MinVersionTable[c], MinVersionTable[c] + 1} :
                    c \in DOMAIN MinVersionTable}

Versions == {<<M, m>> : M \in Majors, m \in 0..MaxMinor}

\* The values of compiler.cppstd, in the order the standards were published.
CppStds == <<98, 11, 14, 17, 20, 23>>

\* compiler.cppstd unset: get_safe("cppstd") returns None.
NoCppstd == [num |-> 0, gnu |-> FALSE]

\* "14" is [num |-> 14, gnu |-> FALSE], "gnu14" is [num |-> 14, gnu |-> TRUE].
CppstdValues == {[num |-> CppStds[i], gnu |-> g] : i \in 1..MaxStdIdx, g \in BOOLEAN}

BuildTypes == {"Debug", "Release"}

\* ------------------------------------------------- conan.tools.scm.Version

\* Version._nonzero_items: the items without their trailing zeros.
RECURSIVE nonzero_items(_)
nonzero_items(items) ==
    IF items # <<>> /\ items[Len(items)] = 0
    THEN nonzero_items(SubSeq(items, 1, Len(items) - 1))
    ELSE items

\* Python's order on tuples of integers.
RECURSIVE tuple_lt(_, _)
tuple_lt(a, b) ==
    IF b = <<>> THEN FALSE
    ELSE IF a = <<>> THEN TRUE
    ELSE IF Head(a) # Head(b) THEN Head(a) < Head(b)
    ELSE tuple_lt(Tail(a), Tail(b))

\* Version(v) < n for an integer n, which Version.__lt__ turns into Version(n).
Version_lt(v, n) == tuple_lt(nonzero_items(v), nonzero_items(<<n>>))

\* ------------------------------------- conan.tools.build.check_min_cppstd

\* extract_cpp_version: "gnu14" -> "14".
extract_cpp_version(std) == std.num

\* add_millennium: "98" -> "1998", any other "NN" -> "20NN".
add_millennium(n) == IF n = 98 THEN 1900 + n ELSE 2000 + n

\* check_min_cppstd(conanfile, required): the exception it raises, or "".
check_min_cppstd(current, required) ==
    IF current = NoCppstd THEN "ConanInvalidConfiguration"
    ELSE IF add_millennium(extract_cpp_version(current)) < add_millennium(required)
    THEN "ConanInvalidConfiguration"
    ELSE ""

\* ---------------------------------------------------------------- validate

WarnAssume == "Assuming the compiler supports c++11 by default"

\* validate() comparing the version with <= in place of <.
validate_outcome_le(name, ver, std) ==
    IF std # NoCppstd
    THEN [error |-> check_min_cppstd(std, 11), warnings |-> <<>>, consulted |-> FALSE]
    ELSE LET version_cxx11_standard_json == min_compiler_version_default_cxx11(name) IN
         IF version_cxx11_standard_json = None \/ version_cxx11_standard_json[1] = 0
         THEN [error |-> "", warnings |-> <<WarnAssume>>, consulted |-> TRUE]
         ELSE IF ~tuple_lt(nonzero_items(<<version_cxx11_standard_json[1]>>),
                           nonzero_items(ver))
         THEN [error |-> "ConanInvalidConfiguration", warnings |-> <<>>, consulted |-> TRUE]
         ELSE [error |-> "", warnings |-> <<>>, consulted |-> TRUE]

\* validate() calling check_min_cppstd(self, 14).
validate_outcome_min14(name, ver, std) ==
    IF std # NoCppstd
    THEN [error |-> check_min_cppstd(std, 14), warnings |-> <<>>, consulted |-> FALSE]
    ELSE LET version_cxx11_standard_json == min_compiler_version_default_cxx11(name) IN
         IF version_cxx11_standard_json = None \/ version_cxx11_standard_json[1] = 0
         THEN [error |-> "", warnings |-> <<WarnAssume>>, consulted |-> TRUE]
         ELSE IF Version_lt(ver, version_cxx11_standard_json[1])
         THEN [error |-> "ConanInvalidConfiguration", warnings |-> <<>>, consulted |-> TRUE]
         ELSE [error |-> "", warnings |-> <<>>, consulted |-> TRUE]

\* validate() without the call of check_min_cppstd.
validate_outcome_no_check(name, ver, std) ==
    IF std # NoCppstd
    THEN [error |-> "", warnings |-> <<>>, consulted |-> FALSE]
    ELSE LET version_cxx11_standard_json == min_compiler_version_default_cxx11(name) IN
         IF version_cxx11_standard_json = None \/ version_cxx11_standard_json[1] = 0
         THEN [error |-> "", warnings |-> <<WarnAssume>>, consulted |-> TRUE]
         ELSE IF Version_lt(ver, version_cxx11_standard_json[1])
         THEN [error |-> "ConanInvalidConfiguration", warnings |-> <<>>, consulted |-> TRUE]
         ELSE [error |-> "", warnings |-> <<>>, consulted |-> TRUE]

\* What validate() does for given settings: the exception it raises ("" when
\* it returns), what it logs, and whether it read the table.
validate_outcome(name, ver, std) ==
    IF std # NoCppstd
    THEN [error |-> check_min_cppstd(std, 11), warnings |-> <<>>, consulted |-> FALSE]
    ELSE LET version_cxx11_standard_json == min_compiler_version_default_cxx11(name) IN
         IF version_cxx11_standard_json = None \/ version_cxx11_standard_json[1] = 0
         THEN [error |-> "", warnings |-> <<WarnAssume>>, consulted |-> TRUE]
         ELSE IF Version_lt(ver, version_cxx11_standard_json[1])
         THEN [error |-> "ConanInvalidConfiguration", warnings |-> <<>>, consulted |-> TRUE]
         ELSE [error |-> "", warnings |-> <<>>, consulted |-> TRUE]

\* ------------------------------------------------------------------- files

P_LICENSE == <<"LICENSE">>
P_HEADER  == <<"include", "/", "boost", "/", "scope.hpp">>
P_STRAY   == <<"include", "s.txt">>                  \* the file includes.txt
P_PATCH   == <<"conan", "/", "1.83_compat.patch">>
P_RECIPE  == <<"conan", "/", "conanfile.py">>

Paths == {P_LICENSE, P_HEADER, P_STRAY, P_PATCH, P_RECIPE}

\* The files the compatibility patch may have hunks for.
PatchablePaths == {P_HEADER}

\* A file's contents: the file of the checkout it came from and its revision.
Upstream(p) == [file |-> p, rev |-> "upstream"]

\* The contents after the patch's hunks for the file were applied.
Patched(c) == [file |-> c.file, rev |-> "patched"]

\* The contents after only some of the hunks were applied.
PartlyPatched(c) == [file |-> c.file, rev |-> "partial"]

EmptyFolder == [p \in {} |-> Upstream(p)]

\* A checkout holding the files P, each with its upstream contents.
Checkout(P) == [p \in P |-> Upstream(p)]

\* The recipe is conan/conanfile.py of the checkout, so that file is there.
Checkouts == {Checkout(P \cup {P_RECIPE}) : P \in SUBSET (Paths \ {P_RECIPE})}

\* fnmatch on relative paths: "*" matches any run of tokens, "/" included.
RECURSIVE fnmatch(_, _)
fnmatch(name, pattern) ==
    IF pattern = <<>> THEN name = <<>>
    ELSE IF Head(pattern) = "*"
    THEN fnmatch(name, Tail(pattern)) \/ (name # <<>> /\ fnmatch(Tail(name), pattern))
    ELSE name # <<>> /\ Head(name) = Head(pattern) /\ fnmatch(Tail(name), Tail(pattern))

\* conan.tools.files.copy(conanfile, pattern, src, dst): every file of src
\* whose relative path matches the pattern is written to dst under the same
\* relative path; nothing matching is not an error.
copy(pattern, src, dst) ==
    LET matched == {p \in DOMAIN src : fnmatch(p, pattern)} IN
    [p \in DOMAIN dst \cup matched |-> IF p \in matched THEN src[p] ELSE dst[p]]

\* --------------------------------------------------------------- the hooks

Hooks == {"validate", "export_sources", "build", "package", "package_id"}

NoError == [hook |-> "", kind |-> ""]

Raise(hook, kind) == [hook |-> hook, kind |-> kind]

Enter(hook) == calls' = [calls EXCEPT ![hook] = @ + 1]

\* self.info as the package manager builds it from the settings and requires.
InitialInfo(name, ver, std, bt) ==
    [settings |-> {<<name, ver, std, bt>>}, options |-> {}, requires |-> {"boost"}]

\* ConanInfo.clear(): no settings, options or requirements in the identity.
info_clear(i) == [settings |-> {}, options |-> {}, requires |-> {}]

Init ==
    /\ compiler \in Compilers
    /\ version \in Versions
    /\ cppstd \in CppstdValues \cup {NoCppstd}
    /\ build_type \in BuildTypes
    /\ recipe_root \in Checkouts
    /\ patch_targets \in SUBSET PatchablePaths
    /\ patch_fits \in BOOLEAN
    /\ export_sources_folder = EmptyFolder
    /\ source_folder = EmptyFolder
    /\ package_folder = EmptyFolder
    /\ info = InitialInfo(compiler, version, cppstd, build_type)
    /\ output = <<>>
    /\ table_consulted = FALSE
    /\ raised = NoError
    /\ calls = [h \in Hooks |-> 0]
    /\ pc = "validate"

\* validate() logging the configuration error instead of raising it.
validate_logs_error ==
    /\ pc = "validate"
    /\ Enter("validate")
    /\ LET r == validate_outcome(compiler, version, cppstd) IN
        /\ output' = output \o r.warnings
        /\ table_consulted' = r.consulted
        /\ raised' = IF r.error # "" THEN Raise("validate", r.error) ELSE raised
        /\ pc' = "export_sources"
    /\ UNCHANGED <<settings_vars, recipe_root, patch_targets, patch_fits,
                   export_sources_folder, source_folder, package_folder, info>>

validate ==
    /\ pc = "validate"
    /\ Enter("validate")
    /\ LET r == validate_outcome(compiler, version, cppstd) IN
        /\ output' = output \o r.warnings
        /\ table_consulted' = r.consulted
        /\ IF r.error # ""
           THEN raised' = Raise("validate", r.error) /\ pc' = "aborted"
           ELSE raised' = raised /\ pc' = "export_sources"
    /\ UNCHANGED <<settings_vars, recipe_root, patch_targets, patch_fits,
                   export_sources_folder, source_folder, package_folder, info>>

\* export_sources() without the copy of LICENSE.
export_sources_no_license ==
    /\ pc = "export_sources"
    /\ Enter("export_sources")
    /\ LET src == recipe_root
           d2 == copy(<<"include", "*">>, src, export_sources_folder)
           d3 == copy(<<"conan", "/", "1.83_compat.patch">>, src, d2)
       IN export_sources_folder' = d3
    /\ pc' = "source"
    /\ UNCHANGED <<settings_vars, recipe_root, patch_targets, patch_fits,
                   source_folder, package_folder, info, output, table_consulted,
                   raised>>

\* export_sources() copying the patch from the recipe folder, as "1.83_compat.patch".
export_sources_patch_beside_recipe ==
    /\ pc = "export_sources"
    /\ Enter("export_sources")
    /\ LET src == recipe_root
           d1 == copy(<<"LICENSE">>, src, export_sources_folder)
           d2 == copy(<<"include", "*">>, src, d1)
           d3 == copy(<<"1.83_compat.patch">>, src, d2)
       IN export_sources_folder' = d3
    /\ pc' = "source"
    /\ UNCHANGED <<settings_vars, recipe_root, patch_targets, patch_fits,
                   source_folder, package_folder, info, output, table_consulted,
                   raised>>

export_sources ==
    /\ pc = "export_sources"
    /\ Enter("export_sources")
    /\ LET src == recipe_root
           d1 == copy(<<"LICENSE">>, src, export_sources_folder)
           d2 == copy(<<"include", "*">>, src, d1)
           d3 == copy(<<"conan", "/", "1.83_compat.patch">>, src, d2)
       IN export_sources_folder' = d3
    /\ pc' = "source"
    /\ UNCHANGED <<settings_vars, recipe_root, patch_targets, patch_fits,
                   source_folder, package_folder, info, output, table_consulted,
                   raised>>

\* Between export_sources() and build() the package manager lays the exported
\* sources out as self.source_folder.
source ==
    /\ pc = "source"
    /\ source_folder' = export_sources_folder
    /\ pc' = "build"
    /\ UNCHANGED <<settings_vars, recipe_root, patch_targets, patch_fits,
                   export_sources_folder, package_folder, info, output,
                   table_consulted, raised, calls>>

\* conan.tools.files.patch(conanfile, patch_file=...) on the folder `folder`:
\* the folders it can leave behind and the exception it raises with each.
patch(folder, patch_file) ==
    IF patch_file \notin DOMAIN folder
    THEN {[folder |-> folder, error |-> "FileNotFoundError"]}
    ELSE IF patch_fits /\ patch_targets \subseteq DOMAIN folder
    THEN {[folder |-> [p \in DOMAIN folder |->
                          IF p \in patch_targets THEN Patched(folder[p]) ELSE folder[p]],
           error |-> ""]}
    ELSE {[folder |-> [p \in DOMAIN folder |->
                          IF p \in S THEN PartlyPatched(folder[p]) ELSE folder[p]],
           error |-> "ConanException"] : S \in SUBSET (patch_targets \cap DOMAIN folder)}

\* build() going on to package() whatever patch() raised.
build_ignores_failure ==
    /\ pc = "build"
    /\ Enter("build")
    /\ LET patch_file == <<"conan", "/", "1.83_compat.patch">> IN
       \E r \in patch(source_folder, patch_file) :
        /\ source_folder' = r.folder
        /\ raised' = IF r.error # "" THEN Raise("build", r.error) ELSE raised
        /\ pc' = "package"
    /\ UNCHANGED <<settings_vars, recipe_root, patch_targets, patch_fits,
                   export_sources_folder, package_folder, info, output,
                   table_consulted>>

build ==
    /\ pc = "build"
    /\ Enter("build")
    /\ LET patch_file == <<"conan", "/", "1.83_compat.patch">> IN
       \E r \in patch(source_folder, patch_file) :
        /\ source_folder' = r.folder
        /\ IF r.error # ""
           THEN raised' = Raise("build", r.error) /\ pc' = "aborted"
           ELSE raised' = raised /\ pc' = "package"
    /\ UNCHANGED <<settings_vars, recipe_root, patch_targets, patch_fits,
                   export_sources_folder, package_folder, info, output,
                   table_consulted>>

\* package() with the pattern "include*" of export_sources().
package_wide_pattern ==
    /\ pc = "package"
    /\ Enter("package")
    /\ LET d1 == copy(<<"include", "*">>, source_folder, package_folder)
           d2 == copy(<<"LICENSE">>, source_folder, d1)
       IN package_folder' = d2
    /\ pc' = "package_id"
    /\ UNCHANGED <<settings_vars, recipe_root, patch_targets, patch_fits,
                   export_sources_folder, source_folder, info, output,
                   table_consulted, raised>>

package ==
    /\ pc = "package"
    /\ Enter("package")
    /\ LET d1 == copy(<<"include", "/", "*">>, source_folder, package_folder)
           d2 == copy(<<"LICENSE">>, source_folder, d1)
       IN package_folder' = d2
    /\ pc' = "package_id"
    /\ UNCHANGED <<settings_vars, recipe_root, patch_targets, patch_fits,
                   export_sources_folder, source_folder, info, output,
                   table_consulted, raised>>

\* package_id() clearing the requirements only.
package_id_keeps_settings ==
    /\ pc = "package_id"
    /\ Enter("package_id")
    /\ info' = [info EXCEPT !.requires = {}]
    /\ pc' = "done"
    /\ UNCHANGED <<settings_vars, recipe_root, patch_targets, patch_fits,
                   export_sources_folder, source_folder, package_folder, output,
                   table_consulted, raised>>

package_id ==
    /\ pc = "package_id"
    /\ Enter("package_id")
    /\ info' = info_clear(info)
    /\ pc' = "done"
    /\ UNCHANGED <<settings_vars, recipe_root, patch_targets, patch_fits,
                   export_sources_folder, source_folder, package_folder, output,
                   table_consulted, raised>>

Next ==
    \/ validate
    \/ export_sources
    \/ source
    \/ build
    \/ package
    \/ package_id

Spec == Init /\ [][Next]_vars

TypeOK ==
    /\ pc \in {"validate", "export_sources", "source", "build", "package",
                "package_id", "done", "aborted"}
    /\ DOMAIN package_folder \subseteq Paths
    /\ DOMAIN source_folder \subseteq Paths

\* ------------------------------------------------------------- properties

ValidateRan == calls["validate"] = 1

ValidateFailed == raised.hook = "validate"

InTable == compiler \in DOMAIN MinVersionTable

\* The version <<major, minor>> is below the integer n exactly when major is.
BelowEntry == InTable /\ version[1] < MinVersionTable[compiler]

\* The position of a standard in the order of publication.
Rank(n) == CHOOSE i \in 1..Len(CppStds) : CppStds[i] = n

ExplicitStd == cppstd # NoCppstd

StdBelow11 == ExplicitStd /\ Rank(cppstd.num) < Rank(11)

StdAtLeast11 == ExplicitStd /\ Rank(cppstd.num) >= Rank(11)

UnderInclude(p) == Len(p) >= 2 /\ p[1] = "include" /\ p[2] = "/"

\* The files of the checkout the claims on packaging speak of.
Packaged(p) == p = P_LICENSE \/ UnderInclude(p)

PackageRan == calls["package"] = 1

\* C1 as stated: for a compiler of the table, validate() fails if and only if
\* the version is below the table entry and no C++ standard is configured.
C1_FailsIffBelowEntryAndNoStd ==
    (ValidateRan /\ InTable) => (ValidateFailed <=> (BelowEntry /\ ~ExplicitStd))

\* C1 amended: for a compiler of the table, validate() fails if and only if
\* either no C++ standard is configured and the version is below the table
\* entry, or a C++ standard older than C++11 is configured; a version equal to
\* the entry does not fail when no standard is configured.
C1_FailsIffBelowEntryOrOldStd ==
    (ValidateRan /\ InTable) =>
        (ValidateFailed <=> ((~ExplicitStd /\ BelowEntry) \/ StdBelow11))

\* gcc 6.0 with no standard configured passed validate().
C1_Witness ==
    /\ ValidateRan /\ compiler = "gcc" /\ version = <<6, 0>> /\ ~ExplicitStd
    /\ raised = NoError /\ pc = "export_sources"

\* C2: for a compiler outside the table and no C++ standard configured,
\* validate() does not fail and logs exactly the one warning.
C2_UnknownCompilerOnlyWarns ==
    (ValidateRan /\ ~InTable /\ ~ExplicitStd) =>
        (~ValidateFailed /\ output = <<WarnAssume>>)

C2_Witness ==
    /\ ValidateRan /\ compiler = "intel-cc" /\ version[1] = 5 /\ ~ExplicitStd
    /\ output = <<WarnAssume>> /\ pc = "export_sources"

\* C3: with a C++ standard of C++11 or newer configured, validate() succeeds
\* for every compiler and version, logs nothing and does not read the table.
C3_StdAtLeast11Succeeds ==
    (ValidateRan /\ StdAtLeast11) =>
        (~ValidateFailed /\ ~table_consulted /\ output = <<>>)

\* gcc 5 with C++11 configured passed validate().
C3_Witness ==
    /\ ValidateRan /\ compiler = "gcc" /\ version[1] = 5 /\ cppstd.num = 11
    /\ ExplicitStd /\ raised = NoError /\ pc = "export_sources"

\* C4: with a C++ standard older than C++11 configured, validate() fails with
\* a configuration error for every compiler and version.
C4_StdBelow11Fails ==
    (ValidateRan /\ StdBelow11) =>
        (raised = Raise("validate", "ConanInvalidConfiguration") /\ pc = "aborted")

\* gcc 7 with C++98 configured failed validate().
C4_Witness ==
    /\ ValidateRan /\ compiler = "gcc" /\ version[1] = 7 /\ cppstd.num = 98
    /\ ExplicitStd /\ ValidateFailed

\* C5: once package_id() has run, the package identity holds no setting, option
\* or requirement, so it is the same whatever the compiler, its version, the
\* configured standard and the build type were.
C5_IdentityCleared ==
    calls["package_id"] = 1 =>
        (info.settings = {} /\ info.options = {} /\ info.requires = {})

C5_Witness ==
    /\ calls["package_id"] = 1 /\ pc = "done"
    /\ compiler = "msvc" /\ build_type = "Debug" /\ ExplicitStd

\* C6 as stated: after export_sources(), build() and package(), the package
\* folder holds the license file and every file under include/ of the source
\* root with the source root's contents.
C6_PackageReproducesSourceRoot ==
    PackageRan =>
        \A p \in DOMAIN recipe_root :
            Packaged(p) =>
                (p \in DOMAIN package_folder /\ package_folder[p] = recipe_root[p])

\* C6 amended: after export_sources(), build() and package(), the package
\* folder holds the license file and every file under include/ of the source
\* root; a file the patch has no hunk for has the source root's contents, and
\* a file the patch has hunks for has the patched contents.
C6_PackageReproducesUnpatchedFiles ==
    PackageRan =>
        \A p \in DOMAIN recipe_root :
            Packaged(p) =>
                /\ p \in DOMAIN package_folder
                /\ package_folder[p] =
                      IF p \in patch_targets
                      THEN [file |-> p, rev |-> "patched"]
                      ELSE recipe_root[p]

\* The patch changed a header and the license file was packaged beside it.
C6_Witness ==
    /\ PackageRan /\ patch_targets = {P_HEADER}
    /\ P_LICENSE \in DOMAIN package_folder /\ P_HEADER \in DOMAIN package_folder

\* C7: after validate() failed, the invocation is over: build() and package()
\* are never entered, no file is patched and the package folder is empty.
C7_FailedValidateAborts ==
    ValidateFailed =>
        /\ pc = "aborted"
        /\ calls["build"] = 0 /\ calls["package"] = 0
        /\ \A p \in DOMAIN source_folder : source_folder[p].rev = "upstream"
        /\ DOMAIN package_folder = {}

C7_Witness ==
    /\ ValidateFailed /\ pc = "aborted" /\ compiler = "gcc" /\ version[1] = 5
    /\ ~ExplicitStd

\* The patch file is there, and a hunk does not match or names a missing file.
PatchDoesNotApply ==
    /\ P_PATCH \in DOMAIN source_folder
    /\ ~(patch_fits /\ patch_targets \subseteq DOMAIN source_folder)

\* C8: when the patch does not apply cleanly, build() raises, is entered once
\* only, the invocation is over, package() is never entered and the package
\* folder is empty.
C8_FailedPatchAborts ==
    (calls["build"] >= 1 /\ PatchDoesNotApply) =>
        /\ raised = Raise("build", "ConanException")
        /\ pc = "aborted"
        /\ calls["build"] = 1 /\ calls["package"] = 0
        /\ DOMAIN package_folder = {}

C8_Witness ==
    /\ calls["build"] = 1 /\ PatchDoesNotApply /\ ~patch_fits
    /\ raised.hook = "build" /\ pc = "aborted"

\* C9: once export_sources() has run on a source root holding
\* conan/1.83_compat.patch, build() finds the patch file at that path in its
\* source folder and never fails for want of it.
C9_PatchFileExported ==
    P_PATCH \in DOMAIN recipe_root =>
        /\ calls["export_sources"] = 1 => P_PATCH \in DOMAIN export_sources_folder
        /\ pc = "build" => P_PATCH \in DOMAIN source_folder
        /\ raised.kind # "FileNotFoundError"

C9_Witness ==
    /\ P_PATCH \in DOMAIN recipe_root /\ calls["build"] = 1 /\ raised = NoError
    /\ pc = "package"

\* C10: the package folder only ever holds the license file and files under
\* include/: not the patch, not the recipe, not a top-level file whose name
\* merely starts with "include".
C10_OnlyLicenseAndInclude ==
    /\ \A p \in DOMAIN package_folder : Packaged(p)
    /\ DOMAIN package_folder \cap {P_PATCH, P_RECIPE, P_STRAY} = {}

\* A finished run whose exported sources held includes.txt and the patch.
C10_Witness ==
    /\ pc = "done" /\ P_STRAY \in DOMAIN export_sources_folder
    /\ P_PATCH \in DOMAIN source_folder /\ P_HEADER \in DOMAIN package_folder

====
